---- MODULE Spec2Model ----
(***************************************************************************)
(* A model of the qbscript interpreter (src/src/lib.rs, src/src/main.rs):  *)
(* the evaluator over syntax nodes and an environment, and the driver loop *)
(* that evaluates one top-level form at a time and prints its value.       *)
(*                                                                         *)
(* A node (Elem) is a record with the same fields for every kind, so that  *)
(* any two nodes can be compared:                                          *)
(*   k     "Atom" | "Single" | "Call" | "List"                             *)
(*   t     "Symbol" | "String" | "Number" for Atom and Single, "" else     *)
(*   s     the text of a Symbol or String, "" else                         *)
(*   n     the value of a Number, 0 else                                   *)
(*   items the items of a Call or List, << >> else                         *)
(* Rust sequences are indexed from 0 and the model's from 1: items[0] of   *)
(* the source is items[1] here.                                            *)
(***************************************************************************)
EXTENDS Integers, Sequences, FiniteSets

(***************************************************************************)
(* Bounds of the model.                                                    *)
(***************************************************************************)
\* The depth of nested eval calls the stack holds before it overflows.
MaxDepth == 30
\* tri and iota are applied to the integers -1 .. MaxArg.
MaxArg == 3
\* reverse is applied to the bracketed lists of at most MaxListLen items.
MaxListLen == 2
\* add is applied to at most MaxAddOperands operands.
MaxAddOperands == 2
\* cond is applied to at most MaxClauses clauses.
MaxClauses == 2

(***************************************************************************)
(* The syntax nodes.                                                       *)
(***************************************************************************)
Sym(name) == [k |-> "Atom", t |-> "Symbol", s |-> name, n |-> 0, items |-> << >>]

Str(text) == [k |-> "Atom", t |-> "String", s |-> text, n |-> 0, items |-> << >>]

Num(value) == [k |-> "Atom", t |-> "Number", s |-> "", n |-> value, items |-> << >>]

Single(name) == [k |-> "Single", t |-> "Symbol", s |-> name, n |-> 0, items |-> << >>]

Call(its) == [k |-> "Call", t |-> "", s |-> "", n |-> 0, items |-> its]

List(its) == [k |-> "List", t |-> "", s |-> "", n |-> 0, items |-> its]

IsAtomic(e) == e.k \in {"Atom", "Single"}

IsSeq(e) == e.k \in {"Call", "List"}

IsSymbol(e) == e.k = "Atom" /\ e.t = "Symbol"

IsNumber(e) == e.k = "Atom" /\ e.t = "Number"

\* Atom's derived PartialEq: the same variant and the same payload.
AtomEq(a, b) == a.t = b.t /\ a.s = b.s /\ a.n = b.n

\* The canonical true value, Single(Symbol("t")), and the empty List.
True == Single("t")

Nil == List(<< >>)

(***************************************************************************)
(* The environment: HashMap<&str, Elem>, a function from the bound names.  *)
(***************************************************************************)
EmptyEnv == [x \in {} |-> Nil]

Bound(env, name) == name \in DOMAIN env

Insert(env, name, v) ==
    [x \in (DOMAIN env) \cup {name} |-> IF x = name THEN v ELSE env[x]]

(***************************************************************************)
(* The outcome of an evaluation: the value and the environment it leaves,  *)
(* or a fault.  "panic" is an index out of range; "overflow" is the stack  *)
(* exhausted by nested eval calls.  A fault ends the process.              *)
(***************************************************************************)
Ok(v, env) == [val |-> v, env |-> env, fault |-> "none"]

Panic(env) == [val |-> Nil, env |-> env, fault |-> "panic"]

Overflow(env) == [val |-> Nil, env |-> env, fault |-> "overflow"]

(***************************************************************************)
(* The list primitives and predicates: methods of Elem.                    *)
(***************************************************************************)
\* A cons that pushes at the back, as rcons does.
consAtBack(self, other) ==
    IF IsSeq(other) THEN List(Append(other.items, self))
    ELSE List(<<self, other>>)

cons(self, other) ==
    IF IsSeq(other) THEN List(<<self>> \o other.items)
    ELSE List(<<self, other>>)

rcons(self, other) ==
    IF IsSeq(self) THEN List(Append(self.items, other))
    ELSE List(<<self, other>>)

car(self) ==
    IF IsSeq(self)
    THEN IF Len(self.items) = 0 THEN Nil ELSE self.items[1]
    ELSE self

cdr(self) ==
    IF IsSeq(self)
    THEN IF Len(self.items) = 0 THEN Nil ELSE List(Tail(self.items))
    ELSE Nil

atom(self) == IF IsAtomic(self) THEN True ELSE Nil

not(self) ==
    IF IsSeq(self)
    THEN IF Len(self.items) = 0 THEN True ELSE Nil
    ELSE Nil

eq(self, other) ==
    IF IsAtomic(self) /\ IsAtomic(other)
    THEN IF AtomEq(self, other) THEN True ELSE Nil
    ELSE Nil

ne(self, other) ==
    IF IsAtomic(self) /\ IsAtomic(other)
    THEN IF ~AtomEq(self, other) THEN True ELSE Nil
    ELSE Nil

\* a.cmp(&b): "Less", "Equal" or "Greater".
Cmp(a, b) == IF a < b THEN "Less" ELSE IF a > b THEN "Greater" ELSE "Equal"

\* A compare that reads its operands in the other order: b.cmp(&a).
compareSwapped(self, other, order) ==
    IF IsAtomic(self) /\ self.t = "Number"
    THEN IF IsAtomic(other) /\ other.t = "Number"
         THEN IF Cmp(other.n, self.n) = order THEN True ELSE Nil
         ELSE Nil
    ELSE Nil

compare(self, other, order) ==
    IF IsAtomic(self) /\ self.t = "Number"
    THEN IF IsAtomic(other) /\ other.t = "Number"
         THEN IF Cmp(self.n, other.n) = order THEN True ELSE Nil
         ELSE Nil
    ELSE Nil

\* le and ge: the opposite comparison, negated by not.
le(a, b) == not(compare(a, b, "Greater"))

ge(a, b) == not(compare(a, b, "Less"))

\* An ifelse with the truthiness of not: only an empty sequence is false.
ifelseBranchByEmptiness(self) ==
    IF IsSeq(self) /\ Len(self.items) = 0 THEN 2 ELSE 1

\* ifelse: which branch a condition value selects, 1 for t and 2 for f.
ifelseBranch(self) == IF IsAtomic(self) THEN 1 ELSE 2

\* A cond that takes a clause unless its test is an empty sequence.
condTakenUnlessEmpty(test) == ~(IsSeq(test) /\ Len(test.items) = 0)

\* cond's test of a clause: the clause's result is taken.
condTaken(test) == IsAtomic(test)

\* The items the loop of add evaluates: all of them, the leading add too.
addOperands(items) == items

\* The items the loop of list evaluates: all but the first.
listOperands(items) == Tail(items)

\* The scope a procedure's body runs in: a clone of the caller's.
cloneEnv(env) == env

\* A call whose body runs on the caller's environment itself, not on a
\* clone: what the body bound stays.
envAfterCallShared(callerEnv, scopeEnv) == scopeEnv

\* The environment the caller is left with when a procedure call returns:
\* its own (after its arguments were evaluated), never the body's scope.
envAfterCall(callerEnv, scopeEnv) == callerEnv

\* A let that stores its first operand, the name, in place of the second.
letBindingName(items) == items[2]

\* The node let stores under the name: its second operand, as written.
letBinding(items) == items[3]

\* The value a bare symbol bound in env evaluates to: a copy of the binding.
lookup(env, name) == env[name]

(***************************************************************************)
(* The evaluator: Elem::eval with eval_atom and eval_call.  d is the depth *)
(* of nested eval calls the stack still holds.  An operand's outcome is    *)
(* handed to the operator that continues with it, so that the definitions  *)
(* stay shallow: the order of the evaluations and of the index checks is   *)
(* the source's.                                                           *)
(***************************************************************************)
RECURSIVE Eval(_, _, _)
RECURSIVE EvalSeq(_, _, _, _)
RECURSIVE BindParams(_, _, _, _, _, _)
RECURSIVE cond(_, _, _, _)
RECURSIVE SumNumbers(_)

eval_atom(self, env) ==
    IF IsSymbol(self) /\ Bound(env, self.s) THEN lookup(env, self.s) ELSE self

UnaryOps == {"head", "tail", "atom", "not"}

BinaryOps == {"cons", "append", "eq", "ne", "lt", "gt", "le", "ge"}

UnOp(op, a) ==
    CASE op = "head" -> car(a)
      [] op = "tail" -> cdr(a)
      [] op = "atom" -> atom(a)
      [] op = "not" -> not(a)

BinOp(op, a, b) ==
    CASE op = "cons" -> cons(a, b)
      [] op = "append" -> rcons(a, b)
      [] op = "eq" -> eq(a, b)
      [] op = "ne" -> ne(a, b)
      [] op = "lt" -> compare(a, b, "Less")
      [] op = "gt" -> compare(a, b, "Greater")
      [] op = "le" -> le(a, b)
      [] op = "ge" -> ge(a, b)

\* The arm of eval's and eval_call's matches that a node takes.  "panic"
\* is the arm's first index out of range: items[1] of a form that reads
\* its first operand, subitems[0] of an empty Call at the head, or
\* subitems[1] of a head (fun).  "apply" is the application of a head
\* (fun [..] ..); the call is returned as it is when the head's second
\* item is no List.
Dispatch(self, env) ==
    CASE self.k = "Atom" -> "atom"
      [] self.k = "Single" -> "single"
      [] self.k = "List" -> "self"
      [] self.k = "Call" /\ Len(self.items) = 0 -> "self"
      [] self.k = "Call" /\ Len(self.items) > 0 /\ IsSymbol(self.items[1]) ->
           CASE self.items[1].s \in UnaryOps \cup BinaryOps \cup {"if", "let"}
                  /\ Len(self.items) < 2 -> "panic"
             [] self.items[1].s \in UnaryOps /\ Len(self.items) >= 2 -> "unary"
             [] self.items[1].s \in BinaryOps /\ Len(self.items) >= 2 -> "binary"
             [] self.items[1].s \in {"if", "let"} /\ Len(self.items) >= 2 ->
                  self.items[1].s
             [] self.items[1].s \in {"list", "cond", "add"} -> self.items[1].s
             [] OTHER -> IF Bound(env, self.items[1].s) THEN "name" ELSE "self"
      [] self.k = "Call" /\ Len(self.items) > 0 /\ self.items[1].k = "Call" ->
           CASE Len(self.items[1].items) = 0 -> "panic"
             [] Len(self.items[1].items) = 1
                  /\ self.items[1].items[1] = Sym("fun") -> "panic"
             [] Len(self.items[1].items) > 1
                  /\ self.items[1].items[1] = Sym("fun") ->
                  IF self.items[1].items[2].k = "List" THEN "apply" ELSE "self"
             [] OTHER -> "self"
      [] OTHER -> "self"

\* A unary form, its operand evaluated to r.
unary(op, r) ==
    IF r.fault # "none" THEN r ELSE Ok(UnOp(op, r.val), r.env)

\* A binary form, both operands evaluated: the first to a, the second to r.
binaryResult(op, a, r) ==
    IF r.fault # "none" THEN r ELSE Ok(BinOp(op, a, r.val), r.env)

\* A binary form, its first operand evaluated to r: the second is
\* evaluated in the environment the first left.
binary(items, r, d) ==
    CASE r.fault # "none" -> r
      [] r.fault = "none" /\ Len(items) < 3 -> Panic(r.env)
      [] OTHER -> binaryResult(items[1].s, r.val, Eval(items[3], r.env, d - 1))

\* (if c t f), c evaluated to r: ifelse evaluates the branch r selects.
ifelse(items, r, d) ==
    CASE r.fault # "none" -> r
      [] r.fault = "none" /\ Len(items) < 4 -> Panic(r.env)
      [] OTHER -> Eval(items[2 + ifelseBranch(r.val)], r.env, d - 1)

\* One more operand's outcome r after the outcomes p of those before it.
seqValue(p, r) ==
    IF r.fault # "none"
    THEN [vals |-> << >>, env |-> r.env, fault |-> r.fault]
    ELSE [vals |-> Append(p.vals, r.val), env |-> r.env, fault |-> "none"]

seqStep(p, item, d) ==
    IF p.fault # "none" THEN p ELSE seqValue(p, Eval(item, p.env, d - 1))

\* The items 1 .. j evaluated in order, each in the environment the one
\* before it left.
EvalSeq(items, j, env, d) ==
    IF j = 0 THEN [vals |-> << >>, env |-> env, fault |-> "none"]
    ELSE seqStep(EvalSeq(items, j - 1, env, d), items[j], d)

SumNumbers(vals) ==
    IF Len(vals) = 0 THEN 0
    ELSE (IF IsNumber(vals[1]) THEN vals[1].n ELSE 0) + SumNumbers(Tail(vals))

listResult(p) ==
    IF p.fault # "none" THEN [val |-> Nil, env |-> p.env, fault |-> p.fault]
    ELSE Ok(List(p.vals), p.env)

addResult(p) ==
    IF p.fault # "none" THEN [val |-> Nil, env |-> p.env, fault |-> p.fault]
    ELSE Ok(Num(SumNumbers(p.vals)), p.env)

\* (let name expr): items has its first operand.
let(self, env) ==
    CASE ~IsSymbol(self.items[2]) -> Ok(self, env)
      [] IsSymbol(self.items[2]) /\ Len(self.items) < 3 -> Panic(env)
      [] OTHER -> Ok(self.items[2],
                     Insert(env, self.items[2].s, letBinding(self.items)))

\* A clause of cond whose test evaluated to r.
condClause(items, i, r, d) ==
    CASE r.fault # "none" -> r
      [] r.fault = "none" /\ ~condTaken(r.val) -> cond(items, i + 1, r.env, d)
      [] r.fault = "none" /\ condTaken(r.val) /\ Len(items[i].items) < 2 ->
           Panic(r.env)
      [] OTHER -> Eval(items[i].items[2], r.env, d - 1)

\* The clause loop of cond, from items[i] on.
cond(items, i, env, d) ==
    CASE i > Len(items) -> Ok(Nil, env)
      [] i <= Len(items) /\ items[i].k # "List" -> cond(items, i + 1, env, d)
      [] i <= Len(items) /\ items[i].k = "List" /\ Len(items[i].items) = 0 ->
           Panic(env)
      [] OTHER -> condClause(items, i, Eval(items[i].items[1], env, d - 1), d)

\* A parameter's argument evaluated to r, after the parameters before it
\* left p: the caller's env, the scope envm and the fault.
bindValue(p, name, r) ==
    IF r.fault # "none"
    THEN [env |-> r.env, envm |-> p.envm, fault |-> r.fault]
    ELSE [env |-> r.env, envm |-> Insert(p.envm, name, r.val), fault |-> "none"]

bindStep(p, names, j, items, d) ==
    CASE p.fault # "none" -> p
      [] p.fault = "none" /\ ~IsSymbol(names[j]) -> p
      [] p.fault = "none" /\ IsSymbol(names[j]) /\ Len(items) < j + 1 ->
           [p EXCEPT !.fault = "panic"]
      [] OTHER -> bindValue(p, names[j].s, Eval(items[j + 1], p.env, d - 1))

\* The parameter loop of an application, over names[1 .. j]: names[j] is
\* bound in the scope envm to the value of items[j + 1], evaluated in the
\* caller's env.
BindParams(names, j, items, env, envm, d) ==
    IF j = 0 THEN [env |-> env, envm |-> envm, fault |-> "none"]
    ELSE bindStep(BindParams(names, j - 1, items, env, envm, d),
                  names, j, items, d)

\* The body evaluated to r in the scope: the call returns its value.
applyReturn(callerEnv, r) ==
    IF r.fault # "none" THEN [val |-> Nil, env |-> callerEnv, fault |-> r.fault]
    ELSE Ok(r.val, envAfterCall(callerEnv, r.env))

\* The application of subitems, (fun [p1 ..] body), its parameters bound
\* leaving b: the body is evaluated in the scope.
applyBody(subitems, b, d) ==
    CASE b.fault # "none" -> [val |-> Nil, env |-> b.env, fault |-> b.fault]
      [] b.fault = "none" /\ Len(subitems) < 3 -> Panic(b.env)
      [] OTHER -> applyReturn(b.env, Eval(subitems[3], b.envm, d - 1))

\* A call headed by a name bound in env: the name is replaced by its
\* binding and the call evaluated again.
callByName(self, env) == Call([self.items EXCEPT ![1] = env[self.items[1].s]])

Eval(self, env, d) ==
    LET arm == IF d = 0 THEN "overflow" ELSE Dispatch(self, env)
    IN  CASE arm = "overflow" -> Overflow(env)
          [] arm = "atom" -> Ok(eval_atom(self, env), env)
          [] arm = "single" -> Ok([self EXCEPT !.k = "Atom"], env)
          [] arm = "self" -> Ok(self, env)
          [] arm = "panic" -> Panic(env)
          [] arm = "unary" ->
               unary(self.items[1].s, Eval(self.items[2], env, d - 1))
          [] arm = "binary" ->
               binary(self.items, Eval(self.items[2], env, d - 1), d)
          [] arm = "if" ->
               ifelse(self.items, Eval(self.items[2], env, d - 1), d)
          [] arm = "cond" -> cond(self.items, 2, env, d)
          [] arm = "list" ->
               listResult(EvalSeq(listOperands(self.items),
                                  Len(listOperands(self.items)), env, d))
          [] arm = "add" ->
               addResult(EvalSeq(addOperands(self.items),
                                 Len(addOperands(self.items)), env, d))
          [] arm = "let" -> let(self, env)
          [] arm = "name" -> Eval(callByName(self, env), env, d - 1)
          [] arm = "apply" ->
               applyBody(self.items[1].items,
                         BindParams(self.items[1].items[2].items,
                                    Len(self.items[1].items[2].items),
                                    self.items, env, cloneEnv(env), d),
                         d)

(***************************************************************************)
(* Forms, as the parser builds them.                                       *)
(***************************************************************************)
App1(f, a) == Call(<<Sym(f), a>>)

App2(f, a, b) == Call(<<Sym(f), a, b>>)

App3(f, a, b, c) == Call(<<Sym(f), a, b, c>>)

Let(name, expr) == App2("let", Sym(name), expr)

Fun(params, body) == Call(<<Sym("fun"), List(params), body>>)

\* tests::fun_test:
\* (let tri (fun [n] (if (gt n 0) (add n (tri (add n -1))) (0))))
TriDef ==
    Let("tri", Fun(<<Sym("n")>>,
        App3("if", App2("gt", Sym("n"), Num(0)),
             App2("add", Sym("n"), App1("tri", App2("add", Sym("n"), Num(-1)))),
             Call(<<Num(0)>>))))

\* main: (let double (fun [n] (add n n)))
DoubleDef == Let("double", Fun(<<Sym("n")>>, App2("add", Sym("n"), Sym("n"))))

\* main: (let reverse (fun [l] (if (not l) ()
\*           (append (reverse (tail l)) (head l)))))
ReverseDef ==
    Let("reverse", Fun(<<Sym("l")>>,
        App3("if", App1("not", Sym("l")),
             Call(<< >>),
             App2("append", App1("reverse", App1("tail", Sym("l"))),
                  App1("head", Sym("l"))))))

\* main: (let dec (fun [n] (add n -1)))
DecDef == Let("dec", Fun(<<Sym("n")>>, App2("add", Sym("n"), Num(-1))))

\* main: (let iota (fun [n] (if (gt n 0) (append (iota (dec n)) n) n)))
IotaDef ==
    Let("iota", Fun(<<Sym("n")>>,
        App3("if", App2("gt", Sym("n"), Num(0)),
             App2("append", App1("iota", App1("dec", Sym("n"))), Sym("n")),
             Sym("n"))))

\* The top-level forms of the repository's examples that define a name,
\* in order: the definition of fun_test, then those of main's input.
\* Their applications ((double x), (reverse [A B C D E F G]), (iota 10))
\* are the queries below, over bounded arguments.
Script ==
    << TriDef, Let("x", Num(7)), DoubleDef, ReverseDef, DecDef, IotaDef >>

(***************************************************************************)
(* The inputs: the forms a session feeds eval_and_print, by the form of    *)
(* the language they exercise.                                             *)
(***************************************************************************)
\* Operands of every kind of value: a Number, a String, an unbound Symbol,
\* a quoted atom, names a let may have bound (to a quoted atom, a Number, a
\* raw Call or a List), empty and non-empty Lists and Calls, and calls
\* that compute a Number and a List.
Operands ==
    { Num(3), Str("s"), Sym("A"), Single("A"), Sym("x"), Sym("y"), Nil,
      List(<<Sym("A"), Sym("B")>>), Call(<< >>), Call(<<Num(0)>>),
      App2("add", Num(1), Num(2)), App2("cons", Num(1), Nil) }

\* (let name expr) with a Symbol name, and with a first operand of every
\* other kind.
LetForms ==
    { Let("x", Single("A")), Let("x", App2("add", Num(1), Num(2))),
      Let("add", Num(5)), Let("def", Sym("let")),
      Let("y", List(<<Sym("A")>>)), Let("p", Num(9)),
      Let("f", Fun(<<Sym("p")>>, Let("y", Sym("p")))),
      App2("let", Num(5), Sym("x")), App2("let", Str("s"), Num(1)),
      App2("let", Single("x"), Num(1)), App2("let", List(<<Sym("x")>>), Num(1)),
      App2("let", Call(<<Sym("x")>>), Num(1)) }

\* Bare symbols: the names a let may have bound.
SymbolForms == { Sym("x"), Sym("y"), Sym("add"), Sym("def"), Sym("f"), Sym("p") }

HeadForms == { App1("head", o) : o \in Operands } \cup { Call(<<Sym("head")>>) }

NotForms == { App1("not", o) : o \in Operands }

\* The branches of an if: one of them changes the environment and the
\* other faults when it is evaluated.
Branches ==
    { <<Str("T"), Str("F")>>,
      <<Let("y", Num(1)), Call(<<Sym("head")>>)>>,
      <<Call(<<Sym("head")>>), Let("y", Num(1))>> }

IfForms == { App3("if", c, b[1], b[2]) : c \in Operands, b \in Branches }

CompareOps == {"lt", "gt", "le", "ge"}

CompareOperands ==
    { Num(1), Num(2), Str("s"), Sym("x"), Nil, App2("add", Num(1), Num(1)) }

CompareForms ==
    { App2(op, a, b) : op \in CompareOps, a \in CompareOperands,
                       b \in CompareOperands }

AddOperands == { Num(1), Num(-2), Str("x"), Sym("x"), List(<<Num(4)>>) }

AddForms ==
    { Call(<<Sym("add")>> \o args) :
        args \in UNION { [1 .. k -> AddOperands] : k \in 0 .. MaxAddOperands } }

\* Calls no arm of eval_call recognizes: the head is no Symbol and no
\* (fun ..), or a Symbol that is no built-in and that no let binds.  The
\* calls of tests::things and tests::numbers are among them.
EchoForms ==
    { Call(<<Num(1), Num(2)>>), Call(<<Str("s"), Num(1)>>),
      Call(<<Single("A"), Num(1)>>), Call(<<Nil, Num(1)>>),
      Call(<<List(<<Sym("fun")>>), Num(1)>>),
      Call(<<Call(<< >>), Num(1)>>), Call(<<Call(<< >>)>>),
      Call(<<Call(<<Sym("foo"), Num(1)>>), Num(2)>>),
      Call(<<Call(<<Num(1)>>)>>),
      Call(<<Call(<<Single("fun"), List(<<Sym("p")>>), Sym("p")>>), Num(1)>>),
      Call(<<Sym("foo")>>),
      App1("value", App1("head", List(<<Sym(":KEY"), Single("VALUE")>>))),
      Call(<<Sym("second"), Sym("A"), Sym("B"), Sym("C")>>) }

\* Clauses of cond: a test that is an unbound symbol, an empty List, a let
\* (its value is the name) or a name a let may have bound; a result that
\* is a String or that faults when it is evaluated.
CondTests == { Sym("T"), Nil, Let("y", Num(1)), Sym("y") }

CondResults == { Str("r"), Call(<<Sym("head")>>) }

Clauses == { List(<<t, r>>) : t \in CondTests, r \in CondResults }

\* tests::cond_test:
\* (cond [(le (add 3 2) 5) "3 + 2 <= 5"] [T "Catch-all"])
CondTest ==
    Call(<< Sym("cond"),
            List(<<App2("le", App2("add", Num(3), Num(2)), Num(5)),
                   Str("3 + 2 <= 5")>>),
            List(<<Sym("T"), Str("Catch-all")>>) >>)

CondForms ==
    { Call(<<Sym("cond")>> \o cs) :
        cs \in UNION { [1 .. k -> Clauses] : k \in 0 .. MaxClauses } }
    \cup { CondTest,
           Call(<<Sym("cond"), Num(5), List(<<Sym("T"), Str("r")>>)>>),
           Call(<<Sym("cond"), List(<<App2("gt", Num(1), Num(2)), Str("r")>>),
                  Sym("T")>>) }

ConsHeads ==
    { Num(1), Sym("x"), Single("A"), List(<<Sym("B")>>), Let("y", Num(1)) }

ConsTails ==
    { Nil, List(<<Sym("A"), Sym("B")>>), Call(<< >>), Call(<<Num(0), Num(1)>>),
      Sym("y"), Num(2), App2("cons", Num(1), Nil) }

ConsForms ==
    UNION { { App2("cons", a, l), App1("head", App2("cons", a, l)),
              App1("tail", App2("cons", a, l)) } :
            a \in ConsHeads, l \in ConsTails }

\* Procedures: a body that binds a name with let, the identity, a body
\* that rebinds its own parameter, and one of two parameters.
Procedures ==
    { Fun(<<Sym("p")>>, Let("y", Sym("p"))),
      Fun(<<Sym("p")>>, Sym("p")),
      Fun(<<Sym("p")>>, App2("list", Let("p", Num(0)), Let("x", Sym("p")))) }

TwoParams == Fun(<<Sym("p"), Sym("q")>>, App2("list", Sym("q"), Let("y", Sym("p"))))

\* Arguments: without let, with a call headed by a name that a let may
\* have bound to let, and with a let.
Arguments ==
    { Num(1), Sym("x"), Sym("A"), App2("add", Num(1), Num(2)),
      App2("def", Sym("y"), Num(1)), Let("y", Num(1)) }

\* Applications, of a (fun ..) and of a name; with as many arguments as
\* parameters, with more and with fewer.
ApplyForms ==
    { Call(<<f, a>>) : f \in Procedures \cup {Sym("f")}, a \in Arguments }
    \cup { Call(<<TwoParams, a, Num(2)>>) : a \in Arguments }
    \cup { Call(<<Fun(<<Sym("p")>>, Sym("p")), Num(1), Num(2)>>),
           Call(<<Fun(<<Sym("p")>>, Sym("p"))>>),
           Call(<<Fun(<< >>, Let("y", Num(1)))>>),
           Call(<<Call(<<Sym("fun")>>), Num(1)>>),
           Call(<<Call(<<Sym("fun"), Sym("p"), Sym("p")>>), Num(1)>>),
           Call(<<Call(<<Sym("fun"), List(<<Sym("p")>>)>>), Num(1)>>) }

\* The bracketed lists of at most n items, each a Symbol or a List.
ListsUpTo(n) ==
    { List(its) :
        its \in UNION { [1 .. k -> {Sym("A"), List(<<Sym("B")>>)}] : k \in 0 .. n } }

\* Applications of the procedures the repository's examples define.
Queries ==
    { App1(f, Num(n)) : f \in {"tri", "iota", "double", "dec"}, n \in -1 .. MaxArg }
    \cup { App1("reverse", l) : l \in ListsUpTo(MaxListLen) }
    \cup { App1("double", Sym("x")) }

(***************************************************************************)
(* The session: the driver's environment and the form it has in hand.      *)
(***************************************************************************)
VARIABLES
    env,    \* the driver's environment
    pos,    \* the number of forms of Script the driver has evaluated
    phase,  \* "read": before a form; "print": its value is to be printed;
            \* "aborted": the evaluation faulted and the process ended
    last    \* the form evaluated last and not yet printed, the environment
            \* before it, and its value or fault

vars == <<env, pos, phase, last>>

NoLast == [form |-> Nil, before |-> EmptyEnv, val |-> Nil, fault |-> "none"]

Init ==
    /\ env = EmptyEnv
    /\ pos = 0
    /\ phase = "read"
    /\ last = NoLast

\* eval_and_print up to println!: the form is evaluated in env.
Step(f) ==
    /\ phase = "read"
    /\ LET r == Eval(f, env, MaxDepth)
       IN  /\ last' = [form |-> f, before |-> env, val |-> r.val,
                       fault |-> r.fault]
           /\ env' = r.env
           /\ phase' = IF r.fault = "none" THEN "print" ELSE "aborted"

\* main's loop, and fun_test: the next form of Script, from a fresh
\* environment on.
RunScript ==
    /\ pos < Len(Script)
    /\ pos > 0 \/ env = EmptyEnv
    /\ Step(Script[pos + 1])
    /\ pos' = pos + 1

\* The forms of a session of its own: lets and bare symbols.
EvalLet == pos = 0 /\ (\E f \in LetForms : Step(f)) /\ UNCHANGED pos

EvalSymbol == \E f \in SymbolForms : Step(f) /\ UNCHANGED pos

EvalHead == \E f \in HeadForms : Step(f) /\ UNCHANGED pos

EvalNot == \E f \in NotForms : Step(f) /\ UNCHANGED pos

EvalIf == \E f \in IfForms : Step(f) /\ UNCHANGED pos

EvalCompare == \E f \in CompareForms : Step(f) /\ UNCHANGED pos

EvalAdd == \E f \in AddForms : Step(f) /\ UNCHANGED pos

EvalEcho == \E f \in EchoForms : Step(f) /\ UNCHANGED pos

EvalCond == \E f \in CondForms : Step(f) /\ UNCHANGED pos

EvalCons == \E f \in ConsForms : Step(f) /\ UNCHANGED pos

EvalApply == \E f \in ApplyForms : Step(f) /\ UNCHANGED pos

EvalQuery == \E f \in Queries : Step(f) /\ UNCHANGED pos

\* println!: the value is printed and the driver reads on.
Println ==
    /\ phase = "print"
    /\ phase' = "read"
    /\ last' = NoLast
    /\ UNCHANGED <<env, pos>>

Next ==
    \/ RunScript
    \/ EvalLet
    \/ EvalSymbol
    \/ EvalHead
    \/ EvalNot
    \/ EvalIf
    \/ EvalCompare
    \/ EvalAdd
    \/ EvalEcho
    \/ EvalCond
    \/ EvalCons
    \/ EvalApply
    \/ EvalQuery
    \/ Println

Spec == Init /\ [][Next]_vars

(***************************************************************************)
(* What the claims speak of.                                               *)
(***************************************************************************)
\* A form has been evaluated; it returned a value.
Evaluated == phase \in {"print", "aborted"}

Returned == phase = "print"

\* The outcome of the form evaluated last.
Outcome == [val |-> last.val, env |-> env, fault |-> last.fault]

\* The symbols eval_call matches by name.
BuiltIns == UnaryOps \cup BinaryOps \cup {"list", "if", "cond", "add", "let"}

\* (name a1 .. ak): a call of k operands headed by the symbol name.
IsForm(f, name, k) ==
    f.k = "Call" /\ Len(f.items) = k + 1 /\ f.items[1] = Sym(name)

RECURSIVE Mentions(_, _)
\* The symbol name occurs in e.
Mentions(e, name) ==
    \/ IsAtomic(e) /\ e.t = "Symbol" /\ e.s = name
    \/ \E i \in 1 .. Len(e.items) : Mentions(e.items[i], name)

\* e is a (fun ..) form.
IsFun(e) == e.k = "Call" /\ Len(e.items) >= 1 /\ e.items[1] = Sym("fun")

\* f applies a (fun [..] body) form, directly or through a name bound in E.
IsApplication(f, E) ==
    /\ f.k = "Call" /\ Len(f.items) >= 1
    /\ \/ IsFun(f.items[1])
       \/ /\ IsSymbol(f.items[1]) /\ f.items[1].s \notin BuiltIns
          /\ Bound(E, f.items[1].s) /\ IsFun(E[f.items[1].s])

\* No argument expression of the call f contains let.
NoLetInArguments(f) ==
    \A i \in 2 .. Len(f.items) : ~Mentions(f.items[i], "let")

\* C1, as stated: binding isolation.  When an application of a (fun ..)
\* form, direct or through a bound name, whose argument expressions
\* contain no let returns, the caller's environment is what it was.
C1_IsolationAsStated ==
    (Returned /\ IsApplication(last.form, last.before)
        /\ NoLetInArguments(last.form))
    => env = last.before

\* C1, amended: binding isolation holds when moreover the caller's
\* environment binds no name to the symbol let: then no argument
\* evaluation executes a let, and neither the parameter bindings nor the
\* lets of the body reach the caller's environment.
C1_Isolation ==
    (Returned /\ IsApplication(last.form, last.before)
        /\ NoLetInArguments(last.form)
        /\ \A name \in DOMAIN last.before : last.before[name] # Sym("let"))
    => env = last.before

\* A procedure bound to f whose body executes (let y p) was applied in an
\* environment that binds y and p already, and left it as it was.
C1_Witness ==
    /\ Returned
    /\ last.form = Call(<<Sym("f"), Sym("x")>>)
    /\ IsApplication(last.form, last.before)
    /\ {"y", "p", "x"} \subseteq DOMAIN last.before
    /\ last.val = Sym("y")
    /\ env = last.before

\* The first item of a non-empty sequence, the empty List for anything else.
HeadOf(v) == IF IsSeq(v) /\ Len(v.items) > 0 THEN v.items[1] ELSE Nil

\* C2: (head x) returns the first item of x's value when that is a
\* non-empty Call or List, and the empty List in every other case: an
\* empty sequence, an Atom or a Single.
C2_HeadResult ==
    (Returned /\ IsForm(last.form, "head", 1))
    => last.val = HeadOf(Eval(last.form.items[2], last.before, MaxDepth - 1).val)

\* The order relation a comparison form names.
Related(op, a, b) ==
    CASE op = "lt" -> a < b
      [] op = "gt" -> a > b
      [] op = "le" -> a <= b
      [] op = "ge" -> a >= b

\* The values of the two operands of the binary form f, the second
\* evaluated in the environment the first left.
FirstValue(f, E) == Eval(f.items[2], E, MaxDepth - 1)

SecondValue(f, E) == Eval(f.items[3], FirstValue(f, E).env, MaxDepth - 1)

\* C3: lt, gt, le and ge return false (the empty List) when an operand
\* evaluates to something other than a Number, and a truthy value only
\* when both evaluate to Numbers that stand in the named relation.
C3_CompareNonNumbers ==
    \A op \in CompareOps :
        (Returned /\ IsForm(last.form, op, 2))
        => LET a == FirstValue(last.form, last.before).val
               b == SecondValue(last.form, last.before).val
           IN  /\ ~(IsNumber(a) /\ IsNumber(b)) => last.val = Nil
               /\ last.val # Nil =>
                    IsNumber(a) /\ IsNumber(b) /\ Related(op, a.n, b.n)

\* C4: (add a1 .. ak) returns the Number that is the sum of the operands
\* ai whose value is a Number, whatever names the environment binds.
C4_AddResult ==
    (Returned /\ last.form.k = "Call" /\ Len(last.form.items) >= 1
        /\ last.form.items[1] = Sym("add"))
    => last.val =
         Num(SumNumbers(EvalSeq(Tail(last.form.items),
                                Len(last.form.items) - 1,
                                last.before, MaxDepth).vals))

\* No arm of eval_call is written for the call f: its head is no Symbol
\* and no Call headed by the symbol fun, or is a Symbol that is no
\* built-in and that E does not bind.
Unrecognized(f, E) ==
    /\ f.k = "Call" /\ Len(f.items) >= 1
    /\ IF IsSymbol(f.items[1])
       THEN f.items[1].s \notin BuiltIns /\ ~Bound(E, f.items[1].s)
       ELSE ~IsFun(f.items[1])

\* C5: an unrecognized call evaluates to itself, leaves the environment
\* as it was and raises no fault.
C5_EchoNoFault ==
    (Evaluated /\ Unrecognized(last.form, last.before))
    => Outcome = Ok(last.form, last.before)

\* C6: (let name expr) with a Symbol name returns the name and leaves the
\* environment changed in that name alone, bound to expr as written; with
\* any other first operand it returns the call and leaves the environment
\* as it was.  A bare symbol that is bound evaluates to the node stored
\* under it, as it is.
C6_LetEffect ==
    /\ (Evaluated /\ IsForm(last.form, "let", 2))
       => IF IsSymbol(last.form.items[2])
          THEN Outcome = Ok(last.form.items[2],
                            Insert(last.before, last.form.items[2].s,
                                   last.form.items[3]))
          ELSE Outcome = Ok(last.form, last.before)
    /\ (Evaluated /\ IsSymbol(last.form) /\ Bound(last.before, last.form.s))
       => Outcome = Ok(last.before[last.form.s], last.before)

\* x was bound again, to the call (add 1 2), and the bare symbol x then
\* evaluated to that call, not to 3.
C6_Witness ==
    /\ Returned
    /\ last.form = Sym("x")
    /\ last.val = App2("add", Num(1), Num(2))
    /\ env = last.before

\* The values the repository's recursive procedures return.
TriValue(n) == IF n > 0 THEN Num((n * (n + 1)) \div 2) ELSE Call(<<Num(0)>>)

IotaValue(n) == IF n > 0 THEN List([i \in 1 .. n + 1 |-> Num(i - 1)]) ELSE Num(n)

ReverseValue(l) ==
    IF Len(l.items) = 0 THEN Call(<< >>)
    ELSE List([i \in 1 .. Len(l.items) |-> l.items[Len(l.items) + 1 - i]])

\* C7: once the definitions of the repository's examples are evaluated
\* in order, an application of tri or iota to an integer of the range, or
\* of reverse to a bracketed list, terminates without a fault, and its
\* value is a function of the argument alone: every evaluation returns
\* the same value.
C7_RecursionTerminates ==
    (Evaluated /\ pos = Len(Script))
    => /\ \A n \in -1 .. MaxArg :
            /\ last.form = App1("tri", Num(n)) => Outcome = Ok(TriValue(n), last.before)
            /\ last.form = App1("iota", Num(n)) => Outcome = Ok(IotaValue(n), last.before)
       /\ \A l \in ListsUpTo(MaxListLen) :
            last.form = App1("reverse", l) => Outcome = Ok(ReverseValue(l), last.before)

\* (iota MaxArg) returned the list of 0 .. MaxArg.
C7_Witness ==
    /\ Returned
    /\ pos = Len(Script)
    /\ last.form = App1("iota", Num(MaxArg))
    /\ Len(last.val.items) = MaxArg + 1
    /\ last.val.items[MaxArg + 1] = Num(MaxArg)

\* C8: (if c t f) evaluates and returns t exactly when c's value is an
\* Atom or Single and f exactly when it is a Call or List, empty or not,
\* and never evaluates the other branch; (not c) is Single t exactly when
\* c's value is an empty Call or List, and the empty List otherwise.
C8_IfNotAsymmetry ==
    /\ (Evaluated /\ IsForm(last.form, "if", 3)
            /\ FirstValue(last.form, last.before).fault = "none")
       => Outcome =
            Eval(IF FirstValue(last.form, last.before).val.k \in {"Atom", "Single"}
                 THEN last.form.items[3] ELSE last.form.items[4],
                 FirstValue(last.form, last.before).env, MaxDepth - 1)
    /\ (Evaluated /\ IsForm(last.form, "not", 1)
            /\ FirstValue(last.form, last.before).fault = "none")
       => Outcome =
            Ok(IF /\ FirstValue(last.form, last.before).val.k \in {"Call", "List"}
                  /\ FirstValue(last.form, last.before).val.items = << >>
               THEN Single("t") ELSE List(<< >>),
               FirstValue(last.form, last.before).env)

\* (if [] (head) (let y 1)) took its second branch: it returned y, bound
\* y, and did not fault on the first.
C8_Witness ==
    /\ Returned
    /\ last.form = App3("if", Nil, Call(<<Sym("head")>>), Let("y", Num(1)))
    /\ last.val = Sym("y")
    /\ env = Insert(last.before, "y", Num(1))

RECURSIVE FirstMatch(_, _, _)
\* The clauses items[i ..] of a cond, read as the claim reads them: the
\* tests of the bracketed clauses in order, up to the first whose value
\* is an Atom or Single, and that clause's result.
FirstMatch(items, i, E) ==
    IF i > Len(items) THEN Ok(List(<< >>), E)
    ELSE IF items[i].k # "List" THEN FirstMatch(items, i + 1, E)
    ELSE LET test == Eval(items[i].items[1], E, MaxDepth - 1)
         IN  IF test.fault # "none" THEN test
             ELSE IF test.val.k \in {"Atom", "Single"}
             THEN Eval(items[i].items[2], test.env, MaxDepth - 1)
             ELSE FirstMatch(items, i + 1, test.env)

\* Every bracketed clause of the cond f is a pair [t r].
PairClauses(f) ==
    \A i \in 2 .. Len(f.items) :
        f.items[i].k = "List" => Len(f.items[i].items) = 2

\* C9: cond evaluates the tests of its bracketed clauses in order, stops
\* at the first whose value is an Atom or Single, evaluates and returns
\* that clause's result and evaluates nothing of a later clause; with no
\* such clause it returns the empty List.
C9_CondFirstMatch ==
    (Evaluated /\ last.form.k = "Call" /\ Len(last.form.items) >= 1
        /\ last.form.items[1] = Sym("cond") /\ PairClauses(last.form))
    => Outcome = FirstMatch(last.form.items, 2, last.before)

\* (cond [[] (head)] [T "r"] ..): the first clause did not match and its
\* faulting result was not evaluated; the second matched on the unbound
\* symbol T.
C9_Witness ==
    /\ Returned
    /\ last.form = Call(<<Sym("cond"), List(<<Nil, Call(<<Sym("head")>>)>>),
                          List(<<Sym("T"), Str("r")>>)>>)
    /\ last.val = Str("r")
    /\ env = last.before

\* C10: for L evaluating to a sequence of items s, (head (cons a L)) is
\* a's value, (tail (cons a L)) is the List of s, and (cons a L) is a
\* List of |s| + 1 items, also when L's value is a Call.
C10_ConsLaws ==
    \A a \in ConsHeads, l \in ConsTails :
        LET va == Eval(a, last.before, MaxDepth - 2)
            vl == Eval(l, va.env, MaxDepth - 2)
        IN  (Returned /\ va.fault = "none" /\ vl.fault = "none"
                /\ vl.val.k \in {"Call", "List"})
            => /\ last.form = App1("head", App2("cons", a, l))
                    => last.val = va.val
               /\ last.form = App1("tail", App2("cons", a, l))
                    => last.val = List(vl.val.items)
               /\ last.form = App2("cons", a, l)
                    => /\ last.val.k = "List"
                       /\ Len(last.val.items) = Len(vl.val.items) + 1

\* (tail (cons x (0 1))): the Call (0 1) is its own value, and the tail of
\* the cons is the List [0 1].
C10_Witness ==
    /\ Returned
    /\ last.form = App1("tail", App2("cons", Sym("x"), Call(<<Num(0), Num(1)>>)))
    /\ last.val = List(<<Num(0), Num(1)>>)

====
